---------------------------- MODULE Spec2Model ----------------------------
(***************************************************************************)
(* wsiface: a topic based publish/subscribe layer over WebSocket.          *)
(*                                                                         *)
(* The repository holds two programs: the node server (src/index.js:       *)
(* WsIfaceServer and Channel) and the browser client WsIfaceClient.  The   *)
(* client is read from its latest iteration, src/unnamed/part_000 (the one *)
(* with createWs, tryReconnect and onReconnect); src/assets/wsiface.js and *)
(* src/unnamed/part_001 hold earlier iterations of it.  A behaviour of     *)
(* this module follows one of four objects, and `program` says which: one  *)
(* Channel of the server with its connections ("server"), a Channel whose  *)
(* listeners call on and off while it dispatches to them ("nested"), the   *)
(* WsIfaceServer that creates the channels and routes calls to them        *)
(* ("wsi"), or the client in the browser ("browser").  The transport (the  *)
(* ws library, the browser WebSocket) is the environment: it accepts and   *)
(* closes connections and delivers raw frames.                             *)
(*                                                                         *)
(* Every handler of the code is one action: JavaScript runs a handler to   *)
(* completion before the next event is taken.  `ev` records what the       *)
(* handler that has just run did (listeners called, return value, log      *)
(* lines, frames sent), which is what the properties talk about; it is     *)
(* cleared when control is back in the event loop (Idle).                  *)
(***************************************************************************)
EXTENDS Integers, Sequences, FiniteSets, TLC

(***************************************************************************)
(* Bounds of the model.                                                    *)
(***************************************************************************)
\* transport connections offered to the channel during one run
MaxConns == 2
\* longest listener sequence the application registers under one topic
MaxListeners == 2
\* failed reachability probes in a row, after which the server answers
MaxProbes == 2
\* Channel objects one WsIfaceServer constructs
MaxChannels == 3

Conns == 1..MaxConns

\* this.clients[id] === undefined
NoConn == 0
\* this.channels[name] === undefined
NoChannel == 0

(***************************************************************************)
(* JavaScript values, as far as the handlers look at them.  An object is   *)
(* the sequence of its members <<key, value>>, in insertion order.         *)
(***************************************************************************)
Undefined == [type |-> "undefined", v |-> "", members |-> <<>>]
Null == [type |-> "null", v |-> "", members |-> <<>>]
Str(s) == [type |-> "string", v |-> s, members |-> <<>>]
Num(n) == [type |-> "number", v |-> n, members |-> <<>>]
Obj(ms) == [type |-> "object", v |-> "", members |-> ms]

\* ToBoolean(v), as used by `!msg.topic`
Truthy(v) ==
    \/ v.type = "object"
    \/ v.type = "string" /\ v.v # ""
    \/ v.type = "number" /\ v.v # "0"

\* obj[key] for a plain data object (the last member of that name wins)
RECURSIVE Member(_, _)
Member(ms, key) ==
    IF ms = <<>> THEN Undefined
    ELSE IF ms[Len(ms)][1] = key THEN ms[Len(ms)][2]
    ELSE Member(SubSeq(ms, 1, Len(ms) - 1), key)

\* v.key: the property read; reading a property of null is a TypeError
CanRead(v) == v.type \notin {"null", "undefined"}
Prop(v, key) == IF v.type = "object" THEN Member(v.members, key) ELSE Undefined

(***************************************************************************)
(* JSON text.  A frame is a sequence of tokens: a scalar is                *)
(*   "null"  |  "n" digits  |  "s" characters                              *)
(* and an object is "{" (key scalar)* "}" with two-token scalars.          *)
(***************************************************************************)
RECURSIVE StringifyMembers(_)
StringifyMembers(ms) ==
    IF ms = <<>> THEN <<>>
    ELSE <<ms[1][1], IF ms[1][2].type = "number" THEN "n" ELSE "s", ms[1][2].v>>
         \o StringifyMembers(Tail(ms))

\* JSON.stringify(value) for the values the code serialises
JSONStringify(value) ==
    IF value.type = "object" THEN <<"{">> \o StringifyMembers(value.members) \o <<"}">>
    ELSE IF value.type = "null" THEN <<"null">>
    ELSE IF value.type = "number" THEN <<"n", value.v>>
    ELSE <<"s", value.v>>

Scalar(tag, text) == IF tag = "n" THEN Num(text) ELSE Str(text)

RECURSIVE ParseMembers(_)
ParseMembers(toks) ==
    IF toks = <<>> THEN <<>>
    ELSE <<<<toks[1], Scalar(toks[2], toks[3])>>>> \o ParseMembers(SubSeq(toks, 4, Len(toks)))

WellFormedObject(raw) ==
    /\ Len(raw) >= 2
    /\ raw[1] = "{"
    /\ raw[Len(raw)] = "}"
    /\ (Len(raw) - 2) % 3 = 0
    /\ \A i \in 1..((Len(raw) - 2) \div 3) : raw[3 * i] \in {"n", "s"}

\* JSON.parse(raw): ok = FALSE stands for the SyntaxError it throws
JSONParse(raw) ==
    IF raw = <<"null">> THEN [ok |-> TRUE, value |-> Null]
    ELSE IF Len(raw) = 2 /\ raw[1] \in {"n", "s"}
        THEN [ok |-> TRUE, value |-> Scalar(raw[1], raw[2])]
    ELSE IF WellFormedObject(raw)
        THEN [ok |-> TRUE, value |-> Obj(ParseMembers(SubSeq(raw, 2, Len(raw) - 1)))]
    ELSE [ok |-> FALSE, value |-> Undefined]

(***************************************************************************)
(* Inputs.                                                                 *)
(***************************************************************************)
\* values genStr() can return (a small alphabet, so that collisions happen)
IdSeq == <<"id1", "id2">>
Ids == {IdSeq[i] : i \in DOMAIN IdSeq}

\* the callbacks the application registers; calling "boom" throws, and "g",
\* when it is a listener of a server channel, calls channel.broadcast(CastData)
Listeners == {"f", "g", "boom"}
Raises(l) == l = "boom"
Broadcasts(l) == l = "g"

\* the topics the application subscribes to
RegTopics == {"#", "a"}
\* names every object inherits from Object.prototype
ProtoKeys == {"constructor"}
\* every key looked up in this.topics
AllTopics == RegTopics \cup ProtoKeys \cup {"b", "connect", "disconnect"}

TopicFrame(t) == <<"{", "topic", "s", t, "}">>

\* raw frames a peer sends
Frames ==
    { <<"not", "json">>,
      <<"null">>,
      <<"n", "1">>,
      <<"{", "value", "n", "1", "}">>,
      <<"{", "topic", "s", "", "}">>,
      TopicFrame("a"),
      TopicFrame("b"),
      TopicFrame("#"),
      TopicFrame("constructor") }

\* the names channels are created under, '/' being the root channel
EndpointNames == {"/", "/chat"}

\* listeners whose body calls on or off of the channel that is dispatching to
\* them: "adder" calls channel.on('a', late), "remover" channel.off('a', late),
\* "clearer" channel.off('a'); "late" calls nothing
NestedListeners == {"adder", "remover", "clearer", "late"}
NestedTopics == {"#", "a"}
NestedFrames == {TopicFrame("a"), TopicFrame("#"), TopicFrame("b")}

\* the topic and the listener of the server-level on and off calls: 'connect'
\* is the topic of the message a Channel dispatches for a new connection
WsiTopics == {"connect"}
WsiListeners == {"f"}

\* raw frames a peer connected to an endpoint sends
PeerFrames == {TopicFrame("connect"), TopicFrame("a")}

\* the channel argument of new WsIfaceClient(channel)
ChannelNames == {"/", "/chat"}

\* this.reconnectHandler: the default () => location.reload(), or a handler
\* given to onReconnect; calling "hboom" throws
ReconnectHandlers == {"reload", "h", "hboom"}

\* the topic argument of client.send(topic, data)
SendTopics == {"a"}

\* the data object a listener broadcasts
CastData == Obj(<<<<"topic", Str("cast")>>>>)

\* data objects the application broadcasts
Payloads ==
    { Obj(<<>>),
      Obj(<<<<"topic", Str("x")>>, <<"n", Num("1")>>>>) }


(***************************************************************************)
(* The topic listener registry: this.topics, an object from topic to       *)
(* {listeners: [...]}.  It is a plain object, so a key it does not own is  *)
(* still looked up in Object.prototype.                                    *)
(***************************************************************************)
NoEntry == [present |-> FALSE, listeners |-> <<>>]
Entry(ls) == [present |-> TRUE, listeners |-> ls]
EmptyTopics == [t \in AllTopics |-> NoEntry]

\* the callback argument left out (undefined)
NoListener == ""

\* this.topics[k]: an own entry, a member inherited from Object.prototype
\* (truthy, and without a listeners array), or undefined
Lookup(tps, k) ==
    IF tps[k].present THEN "entry"
    ELSE IF k \in ProtoKeys THEN "inherited"
    ELSE "undefined"

Includes(ls, l) == \E i \in 1..Len(ls) : ls[i] = l

\* listeners.filter(h => h != listener)
Filter(ls, l) == SelectSeq(ls, LAMBDA h : h # l)

\* Channel.on without the includes() test: the listener is always pushed
ChannelOnNoCheck(tps, topic, listener) ==
    IF Lookup(tps, topic) = "inherited" THEN [topics |-> tps, ret |-> "throw"]
    ELSE [topics |-> [tps EXCEPT ![topic] = Entry(Append(tps[topic].listeners, listener))],
          ret |-> "this"]

\* Channel.on(topic, listener): the registry afterwards, and whether it threw
ChannelOn(tps, topic, listener) ==
    LET created == IF Lookup(tps, topic) = "undefined"
                   THEN [tps EXCEPT ![topic] = Entry(<<>>)]
                   ELSE tps
    IN  IF Lookup(created, topic) = "inherited"
            THEN [topics |-> created, ret |-> "throw"]
        ELSE IF Includes(created[topic].listeners, listener)
            THEN [topics |-> created, ret |-> "this"]
        ELSE [topics |-> [created EXCEPT ![topic] =
                              Entry(Append(created[topic].listeners, listener))],
              ret |-> "this"]

\* Channel.off without the `if (!listener) delete` branch: off(topic) filters
\* with an undefined listener, which removes nothing
ChannelOffKeep(tps, topic, listener) ==
    IF Lookup(tps, topic) = "undefined" THEN [topics |-> tps, ret |-> "this"]
    ELSE IF Lookup(tps, topic) = "inherited"
        THEN [topics |-> tps, ret |-> "throw"]
    ELSE [topics |-> [tps EXCEPT ![topic] = Entry(Filter(tps[topic].listeners, listener))],
          ret |-> "this"]

\* Channel.off deleting the topic's entry whether or not a listener is given
ChannelOffDeleteAll(tps, topic, listener) ==
    IF Lookup(tps, topic) = "undefined" THEN [topics |-> tps, ret |-> "this"]
    ELSE [topics |-> [tps EXCEPT ![topic] = NoEntry], ret |-> "this"]

\* Channel.off(topic, listener)
ChannelOff(tps, topic, listener) ==
    IF Lookup(tps, topic) = "undefined" THEN [topics |-> tps, ret |-> "this"]
    ELSE IF listener = NoListener
        THEN [topics |-> [tps EXCEPT ![topic] = NoEntry], ret |-> "this"]
    ELSE IF Lookup(tps, topic) = "inherited"
        THEN [topics |-> tps, ret |-> "throw"]
    ELSE [topics |-> [tps EXCEPT ![topic] = Entry(Filter(tps[topic].listeners, listener))],
          ret |-> "this"]

\* WsIfaceClient.on(topic, listener)
ClientOn(tps, topic, listener) ==
    LET created == IF Lookup(tps, topic) = "undefined"
                   THEN [tps EXCEPT ![topic] = Entry(<<>>)]
                   ELSE tps
    IN  IF Lookup(created, topic) = "inherited"
            THEN [topics |-> created, ret |-> "throw"]
        ELSE IF Includes(created[topic].listeners, listener)
            THEN [topics |-> created, ret |-> "this"]
        ELSE [topics |-> [created EXCEPT ![topic] =
                              Entry(Append(created[topic].listeners, listener))],
              ret |-> "this"]

\* WsIfaceClient.off(topic, listener)
ClientOff(tps, topic, listener) ==
    IF Lookup(tps, topic) = "undefined" THEN [topics |-> tps, ret |-> "this"]
    ELSE IF listener = NoListener
        THEN [topics |-> [tps EXCEPT ![topic] = NoEntry], ret |-> "this"]
    ELSE IF Lookup(tps, topic) = "inherited"
        THEN [topics |-> tps, ret |-> "throw"]
    ELSE [topics |-> [tps EXCEPT ![topic] = Entry(Filter(tps[topic].listeners, listener))],
          ret |-> "this"]

(***************************************************************************)
(* Dispatch.                                                               *)
(***************************************************************************)
\* index of the first listener of ls whose call throws, 0 if none does
FirstRaise(ls) ==
    IF \E i \in 1..Len(ls) : Raises(ls[i])
    THEN CHOOSE i \in 1..Len(ls) : Raises(ls[i]) /\ \A j \in 1..(i - 1) : ~Raises(ls[j])
    ELSE 0

\* listeners.forEach(l => l(msg, ws)) in one phase of msgHandler ("all" for
\* the listeners of '#', "topic" for those of msg.topic): the calls made, each
\* <<phase, listener>>, and whether one of them threw.  An exception thrown by
\* a callback ends forEach and propagates.
ForEach(key, ls) ==
    LET k == FirstRaise(ls)
        n == IF k = 0 THEN Len(ls) ELSE k
    IN  [calls |-> [i \in 1..n |-> <<key, ls[i]>>], raised |-> k # 0]

\* what a call of msgHandler did
Handled(ret, msg, calls, log) == [ret |-> ret, msg |-> msg, calls |-> calls, log |-> log]

\* Channel.msgHandler reading this.topics[msg.target].listeners in the topic
\* phase, as earlier iterations of the client did: msg.target is undefined, so
\* the read throws whenever the topic has an entry
ChannelMsgHandlerTarget(tps, raw) ==
    LET p == JSONParse(raw)
        msg == p.value
    IN  IF ~p.ok
            THEN Handled("false", Undefined, <<>>, <<"error: Messages MUST BE valid JSON objects">>)
        ELSE IF ~CanRead(msg)
            THEN Handled("throw", msg, <<>>, <<>>)
        ELSE IF ~Truthy(Prop(msg, "topic"))
            THEN Handled("false", msg, <<>>, <<"error: Messages MUST include a topic">>)
        ELSE
            LET t == Prop(msg, "topic").v
                all == IF Lookup(tps, "#") = "entry"
                       THEN ForEach("all", tps["#"].listeners)
                       ELSE [calls |-> <<>>, raised |-> FALSE]
            IN  IF all.raised \/ Lookup(tps, t) # "undefined"
                    THEN Handled("throw", msg, all.calls, <<>>)
                ELSE Handled("undefined", msg, all.calls, <<"debug: Unhandled topic">>)

\* Channel.msgHandler without the `if (!msg.topic) return false` test: a
\* message without topic still goes to the listeners of '#'
ChannelMsgHandlerNoTopicCheck(tps, raw) ==
    LET p == JSONParse(raw)
        msg == p.value
    IN  IF ~p.ok
            THEN Handled("false", Undefined, <<>>, <<"error: Messages MUST BE valid JSON objects">>)
        ELSE IF ~CanRead(msg)
            THEN Handled("throw", msg, <<>>, <<>>)
        ELSE
            LET all == IF Lookup(tps, "#") = "entry"
                       THEN ForEach("all", tps["#"].listeners)
                       ELSE [calls |-> <<>>, raised |-> FALSE]
                t == Prop(msg, "topic").v
            IN  IF all.raised THEN Handled("throw", msg, all.calls, <<>>)
                ELSE IF Truthy(Prop(msg, "topic")) /\ Lookup(tps, t) = "entry"
                    THEN LET own == ForEach("topic", tps[t].listeners)
                         IN  Handled(IF own.raised THEN "throw" ELSE "undefined",
                                     msg, all.calls \o own.calls, <<>>)
                ELSE Handled("undefined", msg, all.calls, <<"debug: Unhandled topic">>)

\* Channel.msgHandler(msg, ws)
ChannelMsgHandler(tps, raw) ==
    LET p == JSONParse(raw)
        msg == p.value
    IN  IF ~p.ok
            THEN Handled("false", Undefined, <<>>, <<"error: Messages MUST BE valid JSON objects">>)
        ELSE IF ~CanRead(msg)
            THEN Handled("throw", msg, <<>>, <<>>)
        ELSE IF ~Truthy(Prop(msg, "topic"))
            THEN Handled("false", msg, <<>>, <<"error: Messages MUST include a topic">>)
        ELSE
            LET t == Prop(msg, "topic").v
                all == IF Lookup(tps, "#") = "entry"
                       THEN ForEach("all", tps["#"].listeners)
                       ELSE [calls |-> <<>>, raised |-> FALSE]
            IN  IF all.raised THEN Handled("throw", msg, all.calls, <<>>)
                ELSE IF Lookup(tps, t) = "entry"
                    THEN LET own == ForEach("topic", tps[t].listeners)
                         IN  Handled(IF own.raised THEN "throw" ELSE "undefined",
                                     msg, all.calls \o own.calls, <<>>)
                ELSE IF Lookup(tps, t) = "inherited"
                    THEN Handled("throw", msg, all.calls, <<>>)
                ELSE Handled("undefined", msg, all.calls, <<"debug: Unhandled topic">>)

\* WsIfaceClient.msgHandler(msg)
ClientMsgHandler(tps, raw) ==
    LET p == JSONParse(raw)
        msg == p.value
    IN  IF ~p.ok
            THEN Handled("false", Undefined, <<>>, <<"error: Messages MUST BE valid JSON objects">>)
        ELSE IF ~CanRead(msg)
            THEN Handled("throw", msg, <<>>, <<>>)
        ELSE IF ~Truthy(Prop(msg, "topic"))
            THEN Handled("false", msg, <<>>, <<"error: Messages MUST include a topic">>)
        ELSE
            LET t == Prop(msg, "topic").v
                all == IF Lookup(tps, "#") = "entry"
                       THEN ForEach("all", tps["#"].listeners)
                       ELSE [calls |-> <<>>, raised |-> FALSE]
            IN  IF all.raised THEN Handled("throw", msg, all.calls, <<>>)
                ELSE IF Lookup(tps, t) = "entry"
                    THEN LET own == ForEach("topic", tps[t].listeners)
                         IN  Handled(IF own.raised THEN "throw" ELSE "undefined",
                                     msg, all.calls \o own.calls, <<>>)
                ELSE IF Lookup(tps, t) = "inherited"
                    THEN Handled("throw", msg, all.calls, <<>>)
                ELSE Handled("undefined", msg, all.calls, <<"warn: Unhandled topic">>)

\* the call of the channel a listener's body makes
ListenerCall(l) ==
    CASE l = "adder" -> [op |-> "on", topic |-> "a", listener |-> "late"]
      [] l = "remover" -> [op |-> "off", topic |-> "a", listener |-> "late"]
      [] l = "clearer" -> [op |-> "off", topic |-> "a", listener |-> NoListener]
      [] OTHER -> [op |-> "none", topic |-> "", listener |-> NoListener]

\* this.topics after the body of listener l ran
Body(l, tps) ==
    LET c == ListenerCall(l)
    IN  IF c.op = "on" THEN ChannelOn(tps, c.topic, c.listener).topics
        ELSE IF c.op = "off" THEN ChannelOff(tps, c.topic, c.listener).topics
        ELSE tps

\* forEach reading the length of the array again before every element
ForEachVisitsLive(len, arr, k) == k <= Len(arr)

\* Array.prototype.forEach reads the length of the array once, before the
\* first callback: index k is visited when it is below that length
ForEachVisits(len, arr, k) == k <= len

\* this.topics[key].listeners.forEach(l => l(msg, ws)) from index k on, with
\* listeners that call on and off.  arr is the content of the array object
\* forEach was called on and len its length at that time; bound tells that
\* this.topics[key].listeners still is that object.  on(key, L) pushes to the
\* array this.topics[key].listeners refers to; off(key, L) assigns a new
\* array, made by filter, to this.topics[key].listeners, and off(key) deletes
\* this.topics[key]: both leave the array object being iterated as it is.
RECURSIVE ForEachNested(_, _, _, _, _, _, _)
ForEachNested(phase, key, arr, len, k, tps, bound) ==
    IF ~(ForEachVisits(len, arr, k) /\ k <= Len(arr))
        THEN [topics |-> tps, calls |-> <<>>, raised |-> FALSE]
    ELSE IF Raises(arr[k])
        THEN [topics |-> tps, calls |-> <<<<phase, arr[k]>>>>, raised |-> TRUE]
    ELSE LET c == ListenerCall(arr[k])
             after == Body(arr[k], tps)
             same == bound /\ ~(c.op = "off" /\ c.topic = key)
             rest == ForEachNested(phase, key,
                                   IF same THEN after[key].listeners ELSE arr,
                                   len, k + 1, after, same)
         IN  [topics |-> rest.topics, calls |-> <<<<phase, arr[k]>>>> \o rest.calls,
              raised |-> rest.raised]

\* Channel.msgHandler with listeners that call on and off: what the call did
\* and this.topics after it
ChannelMsgHandlerNested(tps, raw) ==
    LET p == JSONParse(raw)
        msg == p.value
        none == [topics |-> tps, calls |-> <<>>, raised |-> FALSE]
    IN  IF ~p.ok
            THEN [handled |-> Handled("false", Undefined, <<>>,
                                      <<"error: Messages MUST BE valid JSON objects">>),
                  topics |-> tps]
        ELSE IF ~CanRead(msg)
            THEN [handled |-> Handled("throw", msg, <<>>, <<>>), topics |-> tps]
        ELSE IF ~Truthy(Prop(msg, "topic"))
            THEN [handled |-> Handled("false", msg, <<>>,
                                      <<"error: Messages MUST include a topic">>),
                  topics |-> tps]
        ELSE
            LET t == Prop(msg, "topic").v
                all == IF Lookup(tps, "#") = "entry"
                       THEN ForEachNested("all", "#", tps["#"].listeners,
                                          Len(tps["#"].listeners), 1, tps, TRUE)
                       ELSE none
                mid == all.topics
            IN  IF all.raised
                    THEN [handled |-> Handled("throw", msg, all.calls, <<>>), topics |-> mid]
                ELSE IF Lookup(mid, t) = "entry"
                    THEN LET own == ForEachNested("topic", t, mid[t].listeners,
                                                  Len(mid[t].listeners), 1, mid, TRUE)
                         IN  [handled |-> Handled(IF own.raised THEN "throw" ELSE "undefined",
                                                 msg, all.calls \o own.calls, <<>>),
                              topics |-> own.topics]
                ELSE IF Lookup(mid, t) = "inherited"
                    THEN [handled |-> Handled("throw", msg, all.calls, <<>>), topics |-> mid]
                ELSE [handled |-> Handled("undefined", msg, all.calls,
                                          <<"debug: Unhandled topic">>),
                      topics |-> mid]

(***************************************************************************)
(* State.                                                                  *)
(***************************************************************************)
VARIABLES
    program,      \* "server", "wsi" (src/index.js) or "browser" (src/unnamed/part_000)
    clients,      \* Channel.clients: identifier -> connection, NoConn if none
    topics,       \* Channel.topics
    readyState,   \* ws.readyState of every server side connection
    wsiId,        \* ws.wsiId of every connection, "" before the accept handler ran
    connects,     \* per connection: 'connect' messages the accept handler dispatched
    disconnects,  \* per connection: 'disconnect' messages the close handler dispatched
    ctopics,      \* WsIfaceClient.topics
    socket,       \* readyState of WsIfaceClient.webSocket
    channel,      \* WsIfaceClient.channel
    reconnectHandler, \* WsIfaceClient.reconnectHandler
    timers,       \* setTimeout callbacks of tryReconnect not yet run
    probes,       \* requests of hostReachable not yet answered
    failed,       \* probes that failed since the socket was last open
    reloading,    \* location.reload() was called: the page is about to be replaced
    channels,     \* WsIfaceServer.channels: name -> Channel object, NoChannel if none
    made,         \* the Channel objects constructed, in the order of their app.ws routes
    started,      \* WsIfaceServer.start was called
    ev            \* what the last handler did

vars == <<program, clients, topics, readyState, wsiId, connects, disconnects,
          ctopics, socket, channel, reconnectHandler, timers, probes, failed,
          reloading, channels, made, started, ev>>

serverVars == <<clients, topics, readyState, wsiId, connects, disconnects>>
wsiVars == <<channels, made, started>>
reconnectVars == <<channel, reconnectHandler, timers, probes, failed, reloading>>
browserVars == <<ctopics, socket, reconnectVars>>

\* WebSocket.readyState
CONNECTING == 0
OPEN == 1
CLOSING == 2
CLOSED == 3

NoSent == [c \in Conns |-> <<>>]

\* no handler has run since control came back to the event loop; for a call of
\* on or off, before is the entry the topic had when the call was made.  For
\* the client: success is the answer a probe's callback got, ran the calls of
\* reconnectHandler, created the calls of createWs, armed the calls of
\* setTimeout and delay their delay, wire the frames given to the socket.  For
\* the server: cast is what the broadcasts made by the listeners called sent.
\* For WsIfaceServer: name is the channel name the call was given, inst the
\* Channel object that acted, reached the connections a broadcast sent to
Quiet == [op |-> "idle", conn |-> NoConn, ws |-> NoConn, raw |-> <<>>, msg |-> Undefined,
          ret |-> "undefined", calls |-> <<>>, log |-> <<>>, sent |-> NoSent,
          topic |-> "", listener |-> NoListener, before |-> NoEntry, seen |-> {},
          success |-> FALSE, ran |-> 0, created |-> 0, armed |-> 0, delay |-> 0,
          wire |-> <<>>, cast |-> NoSent, name |-> "", inst |-> NoChannel, reached |-> 0]

\* the record of a handler that called msgHandler(raw, ws): h is what that call
\* did, seen the connections this.clients held while it ran
Dispatched(op, c, ws, raw, h, seen) ==
    [Quiet EXCEPT !.op = op, !.conn = c, !.ws = ws, !.raw = raw, !.msg = h.msg,
                  !.ret = h.ret, !.calls = h.calls, !.log = h.log, !.seen = seen]

Init ==
    /\ program \in {"server", "browser", "wsi", "nested"}
    /\ clients = [i \in Ids |-> NoConn]
    /\ topics = EmptyTopics
    /\ readyState = [c \in Conns |-> CONNECTING]
    /\ wsiId = [c \in Conns |-> ""]
    /\ connects = [c \in Conns |-> 0]
    /\ disconnects = [c \in Conns |-> 0]
    /\ ctopics = EmptyTopics
    /\ socket = CONNECTING
    /\ channel \in (IF program = "browser" THEN ChannelNames ELSE {"/"})
    /\ reconnectHandler = "reload"
    /\ timers = 0
    /\ probes = 0
    /\ failed = 0
    /\ reloading = FALSE
    /\ channels = [n \in EndpointNames |-> NoChannel]
    /\ made = <<>>
    /\ started = FALSE
    /\ ev = Quiet

(***************************************************************************)
(* The server channel.                                                     *)
(***************************************************************************)
\* the identifier without the while loop: the first string drawn is used
FreshIdNoRetry(cl, cand, retry) == cand

\* var id = genStr(); while (this.clients[id]) id = genStr();
\* cand is the first string drawn, retry the one the loop ends with
FreshId(cl, cand, retry) == IF cl[cand] # NoConn THEN retry ELSE cand

\* the connections held in this.clients
Registered(cl) == {cl[i] : i \in {j \in Ids : cl[j] # NoConn}}

ConnectMsg(id) == Obj(<<<<"topic", Str("connect")>>, <<"wsid", Str(id)>>>>)
DisconnectMsg(id) == Obj(<<<<"topic", Str("disconnect")>>, <<"wsid", Str(id)>>>>)

\* the accept handler with the dispatch of 'connect' moved before the
\* registration of the connection
AcceptHandlerDispatchFirst(cl, tps, c, cand, retry) ==
    LET id == FreshId(cl, cand, retry)
        raw == JSONStringify(ConnectMsg(id))
    IN  [id |-> id,
         clients |-> [cl EXCEPT ![id] = c],
         raw |-> raw,
         seen |-> Registered(cl),
         during |-> cl,
         handled |-> ChannelMsgHandler(tps, raw)]

\* the callback of app.ws(name, ...): register the connection under a fresh
\* identifier, attach its handlers, dispatch 'connect' (without a ws argument)
AcceptHandler(cl, tps, c, cand, retry) ==
    LET id == FreshId(cl, cand, retry)
        raw == JSONStringify(ConnectMsg(id))
        added == [cl EXCEPT ![id] = c]
    IN  [id |-> id,
         clients |-> added,
         raw |-> raw,
         seen |-> Registered(added),
         during |-> added,
         handled |-> ChannelMsgHandler(tps, raw)]

\* the close handler with its two statements swapped: the connection is
\* deleted first, the 'disconnect' message dispatched afterwards
CloseHandlerDeleteFirst(cl, tps, c, id) ==
    LET raw == JSONStringify(DisconnectMsg(id))
        removed == [cl EXCEPT ![id] = NoConn]
    IN  [clients |-> removed,
         raw |-> raw,
         seen |-> Registered(removed),
         during |-> removed,
         handled |-> ChannelMsgHandler(tps, raw)]

\* ws.on('close', ...): dispatch 'disconnect', then delete this.clients[ws.wsiId];
\* an exception leaving msgHandler leaves the handler before the delete
CloseHandler(cl, tps, c, id) ==
    LET raw == JSONStringify(DisconnectMsg(id))
        h == ChannelMsgHandler(tps, raw)
    IN  [clients |-> IF h.ret = "throw" THEN cl ELSE [cl EXCEPT ![id] = NoConn],
         raw |-> raw,
         seen |-> Registered(cl),
         during |-> cl,
         handled |-> h]

\* Channel.eachClient(action): Object.values(this.clients).forEach(action); the
\* values visited, one per key the registry holds.  Nothing is removed.
EachClient(cl) ==
    LET keys == SelectSeq(IdSeq, LAMBDA i : cl[i] # NoConn)
    IN  [k \in 1..Len(keys) |-> cl[keys[k]]]

\* the frames the calls ws.readyState === 1 && ws.send(frame), made for the
\* connections of the sequence visited, send to connection c
RECURSIVE SendOpen(_, _, _, _)
SendOpen(visited, rs, frame, c) ==
    IF visited = <<>> THEN <<>>
    ELSE (IF Head(visited) = c /\ rs[c] = OPEN THEN <<frame>> ELSE <<>>)
         \o SendOpen(Tail(visited), rs, frame, c)

\* Channel.broadcast without the readyState test: ws.send for every value
BroadcastNoStateCheck(cl, rs, data) ==
    IF ~Truthy(Prop(data, "topic"))
        THEN [sent |-> NoSent, log |-> <<"error: Messages MUST include a topic">>]
    ELSE [sent |-> [c \in Conns |->
                       SendOpen(EachClient(cl), [d \in Conns |-> OPEN], JSONStringify(data), c)],
          log |-> <<>>]

\* Channel.broadcast(data): the frames sent to each connection
Broadcast(cl, rs, data) ==
    IF ~Truthy(Prop(data, "topic"))
        THEN [sent |-> NoSent, log |-> <<"error: Messages MUST include a topic">>]
    ELSE [sent |-> [c \in Conns |-> SendOpen(EachClient(cl), rs, JSONStringify(data), c)],
          log |-> <<>>]

\* what the broadcasts made from inside the listeners called sent to each
\* connection: every call of a broadcasting listener runs
\* channel.broadcast(CastData) on the registry cl and the ready states rs that
\* hold while msgHandler runs
RECURSIVE ListenerCasts(_, _, _)
ListenerCasts(calls, cl, rs) ==
    IF calls = <<>> THEN NoSent
    ELSE LET rest == ListenerCasts(Tail(calls), cl, rs)
             b == Broadcast(cl, rs, CastData)
         IN  IF Broadcasts(Head(calls)[2])
             THEN [c \in Conns |-> b.sent[c] \o rest[c]]
             ELSE rest

\* the transport completes the upgrade of connection c
Accept(c) ==
    /\ program = "server"
    /\ ev = Quiet
    /\ readyState[c] = CONNECTING
    /\ \A d \in Conns : d < c => readyState[d] # CONNECTING
    /\ \E cand \in Ids, retry \in Ids :
        /\ clients[retry] = NoConn
        /\ LET a == AcceptHandler(clients, topics, c, cand, retry)
           IN  /\ clients' = a.clients
               /\ wsiId' = [wsiId EXCEPT ![c] = a.id]
               /\ connects' = [connects EXCEPT ![c] = @ + 1]
               /\ ev' = [Dispatched("accept", c, NoConn, a.raw, a.handled, a.seen)
                            EXCEPT !.cast = ListenerCasts(a.handled.calls, a.during,
                                                          [readyState EXCEPT ![c] = OPEN])]
    /\ readyState' = [readyState EXCEPT ![c] = OPEN]
    /\ UNCHANGED <<program, wsiVars, topics, disconnects, browserVars>>

\* a frame of the peer arrives on connection c
Message(c, raw) ==
    /\ program = "server"
    /\ ev = Quiet
    /\ readyState[c] \in {OPEN, CLOSING}
    /\ LET h == ChannelMsgHandler(topics, raw)
       IN  ev' = [Dispatched("message", c, c, raw, h, Registered(clients))
                    EXCEPT !.cast = ListenerCasts(h.calls, clients, readyState)]
    /\ UNCHANGED <<program, wsiVars, serverVars, browserVars>>

\* the closing handshake of connection c starts
StartClosing(c) ==
    /\ program = "server"
    /\ ev = Quiet
    /\ readyState[c] = OPEN
    /\ readyState' = [readyState EXCEPT ![c] = CLOSING]
    /\ ev' = [Quiet EXCEPT !.op = "closing", !.conn = c]
    /\ UNCHANGED <<program, wsiVars, clients, topics, wsiId, connects, disconnects, browserVars>>

\* the transport of connection c is closed and emits 'close'
Close(c) ==
    /\ program = "server"
    /\ ev = Quiet
    /\ readyState[c] \in {OPEN, CLOSING}
    /\ readyState' = [readyState EXCEPT ![c] = CLOSED]
    /\ LET h == CloseHandler(clients, topics, c, wsiId[c])
       IN  /\ clients' = h.clients
           /\ ev' = [Dispatched("close", c, c, h.raw, h.handled, h.seen)
                        EXCEPT !.cast = ListenerCasts(h.handled.calls, h.during,
                                                      [readyState EXCEPT ![c] = CLOSED])]
    /\ disconnects' = [disconnects EXCEPT ![c] = @ + 1]
    /\ UNCHANGED <<program, wsiVars, topics, wsiId, connects, browserVars>>

\* the application calls channel.broadcast(data)
DoBroadcast(data) ==
    /\ program = "server"
    /\ ev = Quiet
    /\ LET b == Broadcast(clients, readyState, data)
       IN  ev' = [Quiet EXCEPT !.op = "broadcast", !.msg = data, !.sent = b.sent,
                               !.log = b.log, !.ret = "this"]
    /\ UNCHANGED <<program, wsiVars, serverVars, browserVars>>

\* the application calls channel.on(topic, listener)
On(topic, listener) ==
    /\ program = "server"
    /\ ev = Quiet
    /\ Includes(topics[topic].listeners, listener) \/ Len(topics[topic].listeners) < MaxListeners
    /\ LET r == ChannelOn(topics, topic, listener)
       IN  /\ topics' = r.topics
           /\ ev' = [Quiet EXCEPT !.op = "on", !.topic = topic, !.listener = listener,
                                   !.before = topics[topic], !.ret = r.ret]
    /\ UNCHANGED <<program, wsiVars, clients, readyState, wsiId, connects, disconnects, browserVars>>

\* the application calls channel.off(topic, listener) or channel.off(topic)
Off(topic, listener) ==
    /\ program = "server"
    /\ ev = Quiet
    /\ LET r == ChannelOff(topics, topic, listener)
       IN  /\ topics' = r.topics
           /\ ev' = [Quiet EXCEPT !.op = "off", !.topic = topic, !.listener = listener,
                                   !.before = topics[topic], !.ret = r.ret]
    /\ UNCHANGED <<program, wsiVars, clients, readyState, wsiId, connects, disconnects, browserVars>>

(***************************************************************************)
(* WsIfaceServer: the channels of one server.                              *)
(***************************************************************************)
\* new Channel(wsi, name): no connection, no listener
NewChannel(name) == [name |-> name, topics |-> EmptyTopics, conns |-> 0]

\* createChannel(name): a new Channel is constructed whatever the name; its
\* constructor stores it in wsi.channels[name], replacing an earlier one, and
\* adds its own route with app.ws(name, ...)
CreateChannel(chs, md, name) ==
    [channels |-> [chs EXCEPT ![name] = Len(md) + 1],
     made |-> Append(md, NewChannel(name))]

\* the Channel whose app.ws callback gets an upgrade request on endpoint name:
\* the router runs the first route that matches, and the callback never calls
\* next()
Accepting(md, name) ==
    IF \E i \in 1..Len(md) : md[i].name = name
    THEN CHOOSE i \in 1..Len(md) :
             md[i].name = name /\ \A j \in 1..(i - 1) : md[j].name # name
    ELSE NoChannel

\* channel = channel || '/'
DefaultChannel(name) == IF name = "" THEN "/" ELSE name

\* WsIfaceServer.on creating the channel it is given when there is none
ServerOnCreate(chs, md, topic, action, chan) ==
    LET i == chs[DefaultChannel(chan)]
        fresh == Append(md, NewChannel(DefaultChannel(chan)))
        j == IF i = NoChannel THEN Len(fresh) ELSE i
        r == ChannelOn((IF i = NoChannel THEN fresh ELSE md)[j].topics, topic, action)
    IN  [made |-> [(IF i = NoChannel THEN fresh ELSE md) EXCEPT ![j].topics = r.topics],
         inst |-> j, ret |-> r.ret]

\* WsIfaceServer.on(topic, action, channel); reading .on of
\* this.channels[channel] === undefined is a TypeError
ServerOn(chs, md, topic, action, chan) ==
    LET i == chs[DefaultChannel(chan)]
    IN  IF i = NoChannel THEN [made |-> md, inst |-> NoChannel, ret |-> "throw"]
        ELSE LET r == ChannelOn(md[i].topics, topic, action)
             IN  [made |-> [md EXCEPT ![i].topics = r.topics], inst |-> i, ret |-> r.ret]

\* WsIfaceServer.off(topic, channel, listener)
ServerOff(chs, md, topic, chan, listener) ==
    LET i == chs[DefaultChannel(chan)]
    IN  IF i = NoChannel THEN [made |-> md, inst |-> NoChannel, ret |-> "throw"]
        ELSE LET r == ChannelOff(md[i].topics, topic, listener)
             IN  [made |-> [md EXCEPT ![i].topics = r.topics], inst |-> i, ret |-> r.ret]

\* WsIfaceServer.broadcast(data, channel): the connections it sends to, all of
\* them open
ServerBroadcast(chs, md, data, chan) ==
    LET i == chs[DefaultChannel(chan)]
    IN  IF i = NoChannel THEN [inst |-> NoChannel, reached |-> 0, ret |-> "throw"]
        ELSE [inst |-> i,
              reached |-> IF Truthy(Prop(data, "topic")) THEN md[i].conns ELSE 0,
              ret |-> "this"]

\* the application calls server.createChannel(name)
DoCreateChannel(name) ==
    /\ program = "wsi"
    /\ ev = Quiet
    /\ Len(made) < MaxChannels
    /\ LET r == CreateChannel(channels, made, name)
       IN  /\ channels' = r.channels
           /\ made' = r.made
           /\ ev' = [Quiet EXCEPT !.op = "createChannel", !.name = name,
                                   !.inst = r.channels[name]]
    /\ UNCHANGED <<program, serverVars, browserVars, started>>

\* the application calls server.start(port): the root channel is created and
\* the server listens
DoStart ==
    /\ program = "wsi"
    /\ ev = Quiet
    /\ ~started
    /\ Len(made) < MaxChannels
    /\ LET r == CreateChannel(channels, made, "/")
       IN  /\ channels' = r.channels
           /\ made' = r.made
           /\ ev' = [Quiet EXCEPT !.op = "start", !.name = "/", !.inst = r.channels["/"]]
    /\ started' = TRUE
    /\ UNCHANGED <<program, serverVars, browserVars>>

\* the application calls server.on(topic, action, channel)
DoServerOn(topic, action, chan) ==
    /\ program = "wsi"
    /\ ev = Quiet
    /\ LET r == ServerOn(channels, made, topic, action, chan)
       IN  /\ made' = r.made
           /\ ev' = [Quiet EXCEPT !.op = "serverOn", !.name = chan, !.topic = topic,
                                   !.listener = action, !.inst = r.inst, !.ret = r.ret]
    /\ UNCHANGED <<program, serverVars, browserVars, channels, started>>

\* the application calls server.off(topic, channel, listener)
DoServerOff(topic, chan, listener) ==
    /\ program = "wsi"
    /\ ev = Quiet
    /\ LET r == ServerOff(channels, made, topic, chan, listener)
       IN  /\ made' = r.made
           /\ ev' = [Quiet EXCEPT !.op = "serverOff", !.name = chan, !.topic = topic,
                                   !.listener = listener, !.inst = r.inst, !.ret = r.ret]
    /\ UNCHANGED <<program, serverVars, browserVars, channels, started>>

\* the application calls server.broadcast(data, channel)
DoServerBroadcast(data, chan) ==
    /\ program = "wsi"
    /\ ev = Quiet
    /\ LET r == ServerBroadcast(channels, made, data, chan)
       IN  ev' = [Quiet EXCEPT !.op = "serverBroadcast", !.name = chan, !.msg = data,
                               !.inst = r.inst, !.reached = r.reached, !.ret = r.ret]
    /\ UNCHANGED <<program, serverVars, browserVars, wsiVars>>

\* a peer connects to endpoint name of the listening server: the accepting
\* Channel registers the connection and dispatches 'connect'
Upgrade(name) ==
    /\ program = "wsi"
    /\ ev = Quiet
    /\ started
    /\ Accepting(made, name) # NoChannel
    /\ made[Accepting(made, name)].conns < MaxConns
    /\ LET i == Accepting(made, name)
           raw == JSONStringify(ConnectMsg(IdSeq[1]))
           h == ChannelMsgHandler(made[i].topics, raw)
       IN  /\ made' = [made EXCEPT ![i].conns = @ + 1]
           /\ ev' = [Quiet EXCEPT !.op = "upgrade", !.name = name, !.inst = i, !.raw = raw,
                                   !.msg = h.msg, !.calls = h.calls, !.log = h.log,
                                   !.ret = h.ret]
    /\ UNCHANGED <<program, serverVars, browserVars, channels, started>>

\* ws.on('message', msg => this.msgHandler(msg, ws)) of the Channel that
\* accepted a connection on endpoint name: a frame the peer sent arrives
PeerMessage(name, raw) ==
    /\ program = "wsi"
    /\ ev = Quiet
    /\ Accepting(made, name) # NoChannel
    /\ made[Accepting(made, name)].conns > 0
    /\ LET i == Accepting(made, name)
           h == ChannelMsgHandler(made[i].topics, raw)
       IN  ev' = [Quiet EXCEPT !.op = "peerMessage", !.name = name, !.inst = i, !.raw = raw,
                               !.msg = h.msg, !.calls = h.calls, !.log = h.log,
                               !.ret = h.ret]
    /\ UNCHANGED <<program, serverVars, browserVars, wsiVars>>

(***************************************************************************)
(* A channel whose listeners call on and off while it dispatches.          *)
(***************************************************************************)
\* the application calls channel.on(topic, listener) with such a listener
NestedOn(topic, listener) ==
    /\ program = "nested"
    /\ ev = Quiet
    /\ Includes(topics[topic].listeners, listener) \/ Len(topics[topic].listeners) < MaxListeners
    /\ LET r == ChannelOn(topics, topic, listener)
       IN  /\ topics' = r.topics
           /\ ev' = [Quiet EXCEPT !.op = "nestedOn", !.topic = topic, !.listener = listener,
                                   !.before = topics[topic], !.ret = r.ret]
    /\ UNCHANGED <<program, wsiVars, clients, readyState, wsiId, connects, disconnects, browserVars>>

\* a frame arrives: msgHandler dispatches it, and the listeners it calls
\* change this.topics
NestedMessage(raw) ==
    /\ program = "nested"
    /\ ev = Quiet
    /\ LET r == ChannelMsgHandlerNested(topics, raw)
           h == r.handled
       IN  /\ topics' = r.topics
           /\ ev' = [Quiet EXCEPT !.op = "nestedMessage", !.raw = raw, !.msg = h.msg,
                                   !.ret = h.ret, !.calls = h.calls, !.log = h.log]
    /\ UNCHANGED <<program, wsiVars, clients, readyState, wsiId, connects, disconnects, browserVars>>

(***************************************************************************)
(* The browser client.                                                     *)
(***************************************************************************)
\* setTimeout(..., 2000) in tryReconnect
ReconnectDelay == 2000

\* {topic: 'disconnect'}, the message the client's onclose dispatches
ClientDisconnectMsg == Obj(<<<<"topic", Str("disconnect")>>>>)

\* what a close of the transport runs when onclose is not set
NoOnClose ==
    [raw |-> <<>>, handled |-> Handled("undefined", Undefined, <<>>, <<>>), armed |-> 0]

\* the close of the client's transport.  createWs sets webSocket.onclose only
\* `if (_this.channel == '/')`; the handler dispatches 'disconnect' and then
\* calls tryReconnect(), which arms one timer.  An exception leaving msgHandler
\* leaves the handler before tryReconnect().
OnClose(ch, tps) ==
    IF ch # "/" THEN NoOnClose
    ELSE LET raw == JSONStringify(ClientDisconnectMsg)
             h == ClientMsgHandler(tps, raw)
         IN  [raw |-> raw, handled |-> h, armed |-> IF h.ret = "throw" THEN 0 ELSE 1]

\* the probe's callback calling tryReconnect() after a success as well
ProbeCallbackRearm(success, handler) ==
    IF success
        THEN [ran |-> 1, created |-> IF handler = "hboom" THEN 0 ELSE 1,
              armed |-> IF handler = "hboom" THEN 0 ELSE 1,
              reload |-> handler = "reload",
              ret |-> IF handler = "hboom" THEN "throw" ELSE "undefined"]
    ELSE [ran |-> 0, created |-> 0, armed |-> 1, reload |-> FALSE, ret |-> "undefined"]

\* the probe's callback without the else branch: a failed probe ends the loop
ProbeCallbackGiveUp(success, handler) ==
    IF success
        THEN [ran |-> 1, created |-> IF handler = "hboom" THEN 0 ELSE 1, armed |-> 0,
              reload |-> handler = "reload",
              ret |-> IF handler = "hboom" THEN "throw" ELSE "undefined"]
    ELSE [ran |-> 0, created |-> 0, armed |-> 0, reload |-> FALSE, ret |-> "undefined"]

\* the callback tryReconnect gives to hostReachable:
\*   if (success) { _this.reconnectHandler(); createWs(); } else tryReconnect();
\* an exception thrown by the handler leaves the callback before createWs()
ProbeCallback(success, handler) ==
    IF success
        THEN [ran |-> 1, created |-> IF handler = "hboom" THEN 0 ELSE 1, armed |-> 0,
              reload |-> handler = "reload",
              ret |-> IF handler = "hboom" THEN "throw" ELSE "undefined"]
    ELSE [ran |-> 0, created |-> 0, armed |-> 1, reload |-> FALSE, ret |-> "undefined"]

\* obj[key] = value: an existing member keeps its place, a new one goes last
RECURSIVE SetMember(_, _, _)
SetMember(ms, key, value) ==
    IF ms = <<>> THEN <<<<key, value>>>>
    ELSE IF ms[1][1] = key THEN <<<<key, value>>>> \o Tail(ms)
    ELSE <<ms[1]>> \o SetMember(Tail(ms), key, value)

\* WsIfaceClient.send(topic, data): data = data || {}; data.topic = topic;
\* this.webSocket.send(JSON.stringify(data)).  WebSocket.send throws an
\* InvalidStateError while the socket is CONNECTING and discards the data
\* without an error when it is CLOSING or CLOSED.
ClientSend(rs, topic, data) ==
    LET d == IF Truthy(data) THEN data ELSE Obj(<<>>)
        frame == JSONStringify(Obj(SetMember(d.members, "topic", Str(topic))))
    IN  [frame |-> frame,
         wire |-> IF rs = OPEN THEN <<frame>> ELSE <<>>,
         log |-> <<>>,
         ret |-> IF rs = CONNECTING THEN "throw" ELSE "this"]

\* webSocket.onopen
ClientOpen ==
    /\ program = "browser"
    /\ ev = Quiet
    /\ socket = CONNECTING
    /\ socket' = OPEN
    /\ LET raw == JSONStringify(Obj(<<<<"topic", Str("connect")>>>>))
       IN  ev' = Dispatched("open", NoConn, NoConn, raw, ClientMsgHandler(ctopics, raw), {})
    /\ failed' = 0
    /\ UNCHANGED <<program, wsiVars, serverVars, ctopics, channel, reconnectHandler, timers, probes,
                   reloading>>

\* webSocket.onmessage
ClientMessage(raw) ==
    /\ program = "browser"
    /\ ev = Quiet
    /\ socket = OPEN
    /\ ev' = Dispatched("message", NoConn, NoConn, raw, ClientMsgHandler(ctopics, raw), {})
    /\ UNCHANGED <<program, wsiVars, serverVars, browserVars>>

\* the page calls client.on(topic, listener)
COn(topic, listener) ==
    /\ program = "browser"
    /\ ev = Quiet
    /\ Includes(ctopics[topic].listeners, listener) \/ Len(ctopics[topic].listeners) < MaxListeners
    /\ LET r == ClientOn(ctopics, topic, listener)
       IN  /\ ctopics' = r.topics
           /\ ev' = [Quiet EXCEPT !.op = "on", !.topic = topic, !.listener = listener,
                                   !.before = ctopics[topic], !.ret = r.ret]
    /\ UNCHANGED <<program, wsiVars, serverVars, socket, reconnectVars>>

\* the page calls client.off(topic, listener) or client.off(topic)
COff(topic, listener) ==
    /\ program = "browser"
    /\ ev = Quiet
    /\ LET r == ClientOff(ctopics, topic, listener)
       IN  /\ ctopics' = r.topics
           /\ ev' = [Quiet EXCEPT !.op = "off", !.topic = topic, !.listener = listener,
                                   !.before = ctopics[topic], !.ret = r.ret]
    /\ UNCHANGED <<program, wsiVars, serverVars, socket, reconnectVars>>

\* the transport of the client's socket closes (or fails to connect)
ClientClose ==
    /\ program = "browser"
    /\ ev = Quiet
    /\ socket \in {CONNECTING, OPEN}
    /\ socket' = CLOSED
    /\ LET c == OnClose(channel, ctopics)
       IN  /\ timers' = timers + c.armed
           /\ ev' = [Dispatched("close", NoConn, NoConn, c.raw, c.handled, {})
                        EXCEPT !.armed = c.armed,
                               !.delay = IF c.armed > 0 THEN ReconnectDelay ELSE 0]
    /\ UNCHANGED <<program, wsiVars, serverVars, ctopics, channel, reconnectHandler, probes, failed,
                   reloading>>

\* a timer of tryReconnect expires: hostReachable sends its request
TimerFires ==
    /\ program = "browser"
    /\ ev = Quiet
    /\ timers > 0
    /\ timers' = timers - 1
    /\ probes' = probes + 1
    /\ ev' = [Quiet EXCEPT !.op = "timer"]
    /\ UNCHANGED <<program, wsiVars, serverVars, ctopics, socket, channel, reconnectHandler,
                   failed, reloading>>

\* the request of hostReachable ends: onload gives cb(true), ontimeout and
\* onerror give cb(false)
ProbeResult(success) ==
    /\ program = "browser"
    /\ ev = Quiet
    /\ probes > 0
    /\ success \/ failed < MaxProbes
    /\ probes' = probes - 1
    /\ LET r == ProbeCallback(success, reconnectHandler)
       IN  /\ timers' = timers + r.armed
           /\ socket' = IF r.created > 0 THEN CONNECTING ELSE socket
           /\ reloading' = (reloading \/ r.reload)
           /\ ev' = [Quiet EXCEPT !.op = "probe", !.success = success, !.ran = r.ran,
                                   !.created = r.created, !.armed = r.armed,
                                   !.delay = IF r.armed > 0 THEN ReconnectDelay ELSE 0,
                                   !.ret = r.ret]
    /\ failed' = IF success THEN failed ELSE failed + 1
    /\ UNCHANGED <<program, wsiVars, serverVars, ctopics, channel, reconnectHandler>>

\* the page calls client.onReconnect(handler)
OnReconnect(handler) ==
    /\ program = "browser"
    /\ ev = Quiet
    /\ reconnectHandler' = handler
    /\ ev' = [Quiet EXCEPT !.op = "onReconnect"]
    /\ UNCHANGED <<program, wsiVars, serverVars, ctopics, socket, channel, timers, probes, failed,
                   reloading>>

\* the page calls client.send(topic, data)
Send(topic, data) ==
    /\ program = "browser"
    /\ ev = Quiet
    /\ LET r == ClientSend(socket, topic, data)
       IN  ev' = [Quiet EXCEPT !.op = "send", !.topic = topic, !.msg = data, !.raw = r.frame,
                               !.wire = r.wire, !.log = r.log, !.ret = r.ret]
    /\ UNCHANGED <<program, wsiVars, serverVars, browserVars>>

\* location.reload() takes effect: the page is loaded again and its script
\* constructs the client anew
PageReload ==
    /\ program = "browser"
    /\ ev = Quiet
    /\ reloading
    /\ ctopics' = EmptyTopics
    /\ socket' = CONNECTING
    /\ reconnectHandler' = "reload"
    /\ timers' = 0
    /\ probes' = 0
    /\ failed' = 0
    /\ reloading' = FALSE
    /\ ev' = [Quiet EXCEPT !.op = "load"]
    /\ UNCHANGED <<program, wsiVars, serverVars, channel>>

\* the handler has returned: control is back in the event loop
Idle ==
    /\ ev # Quiet
    /\ ev' = Quiet
    /\ UNCHANGED <<program, wsiVars, serverVars, browserVars>>

Next ==
    \/ Idle
    \/ \E c \in Conns : Accept(c)
    \/ \E c \in Conns, raw \in Frames : Message(c, raw)
    \/ \E c \in Conns : StartClosing(c)
    \/ \E c \in Conns : Close(c)
    \/ \E data \in Payloads : DoBroadcast(data)
    \/ \E t \in RegTopics, l \in Listeners : On(t, l)
    \/ \E t \in RegTopics, l \in Listeners \cup {NoListener} : Off(t, l)
    \/ \E name \in EndpointNames : DoCreateChannel(name)
    \/ DoStart
    \/ \E t \in WsiTopics, l \in WsiListeners, n \in EndpointNames \cup {""} :
           DoServerOn(t, l, n)
    \/ \E t \in WsiTopics, l \in WsiListeners \cup {NoListener}, n \in EndpointNames \cup {""} :
           DoServerOff(t, n, l)
    \/ \E data \in Payloads, n \in EndpointNames \cup {""} : DoServerBroadcast(data, n)
    \/ \E name \in EndpointNames : Upgrade(name)
    \/ \E name \in EndpointNames, raw \in PeerFrames : PeerMessage(name, raw)
    \/ \E t \in NestedTopics, l \in NestedListeners : NestedOn(t, l)
    \/ \E raw \in NestedFrames : NestedMessage(raw)
    \/ ClientOpen
    \/ \E raw \in Frames : ClientMessage(raw)
    \/ \E t \in RegTopics, l \in Listeners : COn(t, l)
    \/ \E t \in RegTopics, l \in Listeners \cup {NoListener} : COff(t, l)
    \/ ClientClose
    \/ TimerFires
    \/ \E success \in BOOLEAN : ProbeResult(success)
    \/ \E handler \in ReconnectHandlers \ {"reload"} : OnReconnect(handler)
    \/ \E topic \in SendTopics, data \in Payloads \cup {Undefined} : Send(topic, data)
    \/ PageReload

Spec == Init /\ [][Next]_vars

(***************************************************************************)
(* Properties.                                                             *)
(***************************************************************************)
\* the registry of the program that runs
Reg == IF program = "server" THEN topics ELSE ctopics

Tag(phase, ls) == [i \in 1..Len(ls) |-> <<phase, ls[i]>>]

\* the calls a message on topic t is to cause: the listeners of '#', then those of t
ExpectedCalls(tps, t) ==
    Tag("all", tps["#"].listeners) \o Tag("topic", tps[t].listeners)

IsPrefix(a, b) == Len(a) <= Len(b) /\ SubSeq(b, 1, Len(a)) = a

Count(seq, x) == Cardinality({i \in 1..Len(seq) : seq[i] = x})

\* e records the dispatch of a decoded message that has a topic
IsDispatch(e) ==
    /\ e.op \in {"accept", "message", "close", "open"}
    /\ CanRead(e.msg)
    /\ Truthy(Prop(e.msg, "topic"))

TopicOf(e) == Prop(e.msg, "topic").v

\* one of the listeners a message on t goes to throws
AnyRaises(tps, t) ==
    \E i \in 1..Len(ExpectedCalls(tps, t)) : Raises(ExpectedCalls(tps, t)[i][2])

\* the frame does not parse, or parses to a value without a topic field
NoTopicField(raw) ==
    LET p == JSONParse(raw)
    IN  ~p.ok \/ Prop(p.value, "topic").type = "undefined"

----------------------------------------------------------------------------
\* C1: the dispatch of a decoded message on topic t (server and client) calls
\* the listeners registered under '#' in registration order, then the
\* listeners registered under t in registration order, and no other listener.
\* The calls made are always a prefix of that list, and the whole list when
\* none of these listeners throws (what a throwing listener does to the rest
\* is C2).
C1_DispatchOrder ==
    [][IsDispatch(ev') =>
           LET want == ExpectedCalls(Reg, TopicOf(ev'))
           IN  /\ IsPrefix(ev'.calls, want)
               /\ ~AnyRaises(Reg, TopicOf(ev')) => ev'.calls = want]_vars

\* a message on "a" went to a listener of '#' and then to two listeners of "a"
C1_Witness ==
    /\ program = "server"
    /\ ev.op = "message"
    /\ ev.raw = TopicFrame("a")
    /\ Len(topics["#"].listeners) = 1
    /\ Len(topics["a"].listeners) = 2
    /\ ev.calls = ExpectedCalls(topics, "a")

\* C2: when a listener called during the dispatch of a message throws, every
\* other listener the dispatch would have called for that message (the other
\* listeners of '#' and all listeners of the topic) is still called.
C2_ListenerIsolation ==
    [][IsDispatch(ev') /\ AnyRaises(Reg, TopicOf(ev')) =>
           ev'.calls = ExpectedCalls(Reg, TopicOf(ev'))]_vars

\* C3: a frame that does not parse as JSON, or parses to a value without a
\* topic field, is rejected before dispatch: the handler does not complete as a
\* dispatch, calls no listener, and leaves the connection registry and the
\* listener registries as they were.
C3_RejectedBeforeDispatch ==
    [][ev'.op = "message" /\ NoTopicField(ev'.raw) =>
           /\ ev'.calls = <<>>
           /\ ev'.ret # "undefined"
           /\ clients' = clients
           /\ topics' = topics
           /\ ctopics' = ctopics]_vars

\* {"value": 1} arrived while '#' had listeners, and none was called
C3_Witness ==
    /\ program = "server"
    /\ ev.op = "message"
    /\ ev.raw = <<"{", "value", "n", "1", "}">>
    /\ topics["#"].listeners # <<>>
    /\ ev.calls = <<>>
    /\ ev.ret = "false"

\* C4: with listeners that do not throw, Channel.msgHandler returns normally
\* for every raw frame.
C4_HandlerNeverThrows ==
    (/\ program = "server"
     /\ ev.op = "message"
     /\ \A t \in AllTopics : \A i \in 1..Len(topics[t].listeners) :
            ~Raises(topics[t].listeners[i]))
    => ev.ret # "throw"

\* C5: broadcast(data) sends nothing when data has no topic; otherwise every
\* registered connection whose transport is open gets the encoded payload
\* exactly once, and no other connection gets anything.
C5_BroadcastRecipients ==
    ev.op = "broadcast" =>
        \A c \in Conns :
            ev.sent[c] = IF /\ Truthy(Prop(ev.msg, "topic"))
                            /\ c \in Registered(clients)
                            /\ readyState[c] = OPEN
                         THEN <<JSONStringify(ev.msg)>>
                         ELSE <<>>

\* a broadcast reached an open connection and skipped a registered one that is not open
C5_Witness ==
    /\ ev.op = "broadcast"
    /\ \E c, d \in Conns :
        /\ ev.sent[c] # <<>>
        /\ d \in Registered(clients)
        /\ readyState[d] # OPEN

\* C6: the connections held in the registry have pairwise distinct
\* identifiers: every accepted connection whose close has not been handled is
\* held under its own identifier, and so is every connection the registry
\* holds; an accept never overwrites a registered connection.
C6_DistinctIds ==
    \A c \in Conns :
        /\ wsiId[c] # "" /\ readyState[c] # CLOSED => clients[wsiId[c]] = c
        /\ c \in Registered(clients) => clients[wsiId[c]] = c
        /\ \A d \in Conns :
               c # d /\ c \in Registered(clients) /\ d \in Registered(clients)
                   => wsiId[c] # wsiId[d]

\* a second connection was accepted while the first was still registered
C6_Witness ==
    /\ ev.op = "accept"
    /\ ev.conn = 2
    /\ readyState[1] \in {OPEN, CLOSING}
    /\ Registered(clients) = {1, 2}

\* C7: per connection the channel goes Connecting -> Open -> Closed.  The
\* accept handler dispatches one {topic: 'connect', wsid: id}, before any
\* inbound message of the connection; the close handler dispatches one
\* {topic: 'disconnect', wsid: id} with the same id, the connection is in the
\* registry while that dispatch runs and out of it once the dispatch has
\* returned; no inbound message of the connection is dispatched afterwards.
\* (A dispatch that does not return, because a listener throws, is C8.)
C7_ConnectionLifecycle ==
    [][/\ \A c \in Conns : connects'[c] <= 1 /\ disconnects'[c] <= connects'[c]
       /\ ev'.op = "accept" =>
            /\ connects[ev'.conn] = 0
            /\ connects'[ev'.conn] = 1
            /\ ev'.msg = ConnectMsg(wsiId'[ev'.conn])
       /\ program = "server" /\ ev'.op = "message" =>
            /\ connects[ev'.conn] = 1
            /\ disconnects[ev'.conn] = 0
       /\ program = "server" /\ ev'.op = "close" =>
            /\ connects[ev'.conn] = 1
            /\ disconnects[ev'.conn] = 0
            /\ disconnects'[ev'.conn] = 1
            /\ ev'.msg = DisconnectMsg(wsiId[ev'.conn])
            /\ wsiId'[ev'.conn] = wsiId[ev'.conn]
            /\ ev'.conn \in ev'.seen
            /\ ev'.ret # "throw" => ev'.conn \notin Registered(clients')]_vars

\* a close was handled: its 'disconnect' went to a listener and returned, and
\* the connection is out of the registry
C7_Witness ==
    /\ ev.op = "close"
    /\ ev.ret = "undefined"
    /\ ev.calls # <<>>
    /\ ev.conn \in ev.seen
    /\ ev.conn \notin Registered(clients)

\* C8: once the close event of a connection has been handled the connection
\* is not in the registry, whatever the listeners did during the dispatch of
\* 'disconnect'.
C8_ClosedNotRegistered ==
    \A c \in Conns : readyState[c] = CLOSED => c \notin Registered(clients)

\* C9: after a broadcast, which iterates with eachClient, the registry holds
\* no connection whose transport is not open.
C9_EachClientEvicts ==
    ev.op = "broadcast" /\ Truthy(Prop(ev.msg, "topic")) =>
        \A c \in Registered(clients) : readyState[c] = OPEN

\* C10: on(topic, L) is idempotent (server and client): after a call the
\* topic's sequence holds L exactly once, a call for a listener already there
\* leaves the registry unchanged, and a message on the topic calls every
\* listener of the topic exactly once in the topic phase (none of the
\* listeners it goes to throwing).
C10_IdempotentOn ==
    [][/\ ev'.op = "on" /\ ev'.ret = "this" =>
            Count(Reg'[ev'.topic].listeners, ev'.listener) = 1
       /\ ev'.op = "on" /\ Includes(Reg[ev'.topic].listeners, ev'.listener) =>
            topics' = topics /\ ctopics' = ctopics
       /\ IsDispatch(ev') /\ ~AnyRaises(Reg, TopicOf(ev')) =>
            \A l \in Listeners :
                Includes(Reg[TopicOf(ev')].listeners, l) =>
                    Count(ev'.calls, <<"topic", l>>) = 1]_vars

\* on("a", L) was called for the L that already headed the two listeners of "a"
C10_Witness ==
    /\ program = "server"
    /\ ev.op = "on"
    /\ ev.topic = "a"
    /\ Len(topics["a"].listeners) = 2
    /\ topics["a"].listeners[1] = ev.listener

\* the calls of one phase ("all" or "topic") among the calls of a dispatch
PhaseCalls(calls, phase) == SelectSeq(calls, LAMBDA cl : cl[1] = phase)

\* msgHandler of the program that runs, applied to registry tps
MsgHandler(tps, raw) ==
    IF program = "server" THEN ChannelMsgHandler(tps, raw) ELSE ClientMsgHandler(tps, raw)

\* the number of calls of listener l, in either phase
Invocations(calls, l) == Cardinality({i \in 1..Len(calls) : calls[i][2] = l})

\* C11: at-most-once delivery: in the dispatch of one message (server and
\* client), whatever the registry and whatever the topic, '#' included, no
\* listener is called more than once.
C11_AtMostOnce ==
    IsDispatch(ev) => \A l \in Listeners : Invocations(ev.calls, l) <= 1

\* C12: off(t) without a listener (server and client) removes the entry of t
\* and leaves every other topic's entry as it was; on a topic without entry it
\* changes nothing; a message on t dispatched on the registry it leaves calls
\* no listener in the topic phase and calls the listeners of '#' in order (all
\* of them when none throws).
C12_OffTopic ==
    [][ev'.op = "off" /\ ev'.listener = NoListener =>
         LET t == ev'.topic
             h == MsgHandler(Reg', TopicFrame(t))
         IN  /\ Reg'[t] = NoEntry
             /\ \A u \in AllTopics \ {t} : Reg'[u] = Reg[u]
             /\ Reg[t] = NoEntry => Reg' = Reg
             /\ PhaseCalls(h.calls, "topic") = <<>>
             /\ IsPrefix(h.calls, Tag("all", Reg'["#"].listeners))
             /\ (\A i \in 1..Len(Reg'["#"].listeners) : ~Raises(Reg'["#"].listeners[i]))
                    => h.calls = Tag("all", Reg'["#"].listeners)]_vars

\* off("a") was called on the server while "a" had two listeners and '#' one
C12_Witness ==
    /\ program = "server"
    /\ ev.op = "off"
    /\ ev.listener = NoListener
    /\ ev.topic = "a"
    /\ Len(ev.before.listeners) = 2
    /\ topics["a"] = NoEntry
    /\ Len(topics["#"].listeners) = 1

\* position of listener l in sequence ls, 0 if it is not there
IndexOf(ls, l) == IF Includes(ls, l) THEN CHOOSE i \in 1..Len(ls) : ls[i] = l ELSE 0

\* C13: off(t, L) removes only L from topic t (server and client): the other
\* listeners of t stay, in the order they had; every other topic's entry is
\* as it was; for an L that is not under t the registry is unchanged; and a
\* message on t dispatched on the registry it leaves calls, in the topic
\* phase, the remaining listeners in that order (all of them when no listener
\* it goes to throws).
C13_OffListener ==
    [][ev'.op = "off" /\ ev'.listener # NoListener =>
         LET t == ev'.topic
             L == ev'.listener
             old == Reg[t].listeners
             new == Reg'[t].listeners
             h == MsgHandler(Reg', TopicFrame(t))
         IN  /\ ~Includes(new, L)
             /\ \A x \in Listeners \ {L} : Includes(new, x) <=> Includes(old, x)
             /\ \A x, y \in Listeners \ {L} :
                    Includes(new, x) /\ Includes(new, y) =>
                        (IndexOf(new, x) < IndexOf(new, y) <=> IndexOf(old, x) < IndexOf(old, y))
             /\ Len(new) = Cardinality({x \in Listeners : Includes(new, x)})
             /\ \A u \in AllTopics \ {t} : Reg'[u] = Reg[u]
             /\ ~Includes(old, L) => Reg' = Reg
             /\ IsPrefix(PhaseCalls(h.calls, "topic"), Tag("topic", new))
             /\ ~AnyRaises(Reg', t) => PhaseCalls(h.calls, "topic") = Tag("topic", new)]_vars

\* off("a", L) was called on the server for the first of the two listeners of "a"
C13_Witness ==
    /\ program = "server"
    /\ ev.op = "off"
    /\ ev.topic = "a"
    /\ Len(ev.before.listeners) = 2
    /\ ev.before.listeners[1] = ev.listener
    /\ topics["a"].listeners = <<ev.before.listeners[2]>>

\* the diagnostic of msgHandler for a topic nobody handles
Unhandled(log) == \E i \in 1..Len(log) : log[i] \in {"debug: Unhandled topic", "warn: Unhandled topic"}

\* C18: a dispatch that completes emits the 'unhandled topic' diagnostic
\* exactly when no listener is registered under the message's topic.
C18_UnhandledDiagnostic ==
    IsDispatch(ev) /\ ev.ret # "throw" =>
        (Unhandled(ev.log) <=> Reg[TopicOf(ev)].listeners = <<>>)

\* the client of the root channel runs
RootClient == program = "browser" /\ channel = "/"

C15_CloseDispatch ==
    program = "browser" =>
        /\ ev.op = "close" =>
               /\ IsDispatch(ev)
               /\ TopicOf(ev) = "disconnect"
               /\ IsPrefix(ev.calls, ExpectedCalls(ctopics, "disconnect"))
               /\ ~AnyRaises(ctopics, "disconnect") =>
                      ev.calls = ExpectedCalls(ctopics, "disconnect")
        /\ channel # "/" => timers = 0 /\ probes = 0 /\ ev.ran = 0 /\ ev.created = 0

\* C16: client.send(topic, data) on an open socket transmits data with its
\* topic member set to topic; on a socket that is not open it transmits
\* nothing, reports an error and returns without throwing.
C16_SendNeedsConnection ==
    program = "browser" /\ ev.op = "send" =>
        IF socket = OPEN
        THEN /\ ev.wire = <<ev.raw>>
             /\ Prop(JSONParse(ev.raw).value, "topic") = Str(ev.topic)
             /\ ev.ret = "this"
        ELSE /\ ev.wire = <<>>
             /\ ev.ret # "throw"
             /\ ev.log # <<>>

CastsMade(calls) == Cardinality({i \in 1..Len(calls) : Broadcasts(calls[i][2])})

\* C20: while the 'connect' message of a newly accepted connection is
\* dispatched the connection is in the registry under its identifier, and
\* every broadcast a listener makes during that dispatch sends its frame to
\* the new connection; while the 'disconnect' message of a closing connection
\* is dispatched, a broadcast a listener makes sends nothing to it.
C20_LifecycleBroadcast ==
    program = "server" =>
        /\ ev.op = "accept" =>
               /\ ev.conn \in ev.seen
               /\ clients[wsiId[ev.conn]] = ev.conn
               /\ readyState[ev.conn] = OPEN
               /\ ev.cast[ev.conn] =
                      [i \in 1..CastsMade(ev.calls) |-> JSONStringify(CastData)]
        /\ ev.op = "close" => ev.cast[ev.conn] = <<>>

\* a connection was accepted while a broadcasting listener was registered
\* under '#': the frame it broadcast went to the new connection
C20_Witness ==
    /\ program = "server"
    /\ ev.op = "accept"
    /\ CastsMade(ev.calls) = 1
    /\ Len(ev.cast[ev.conn]) = 1

\* a connection closed while a broadcasting listener was registered under
\* '#': the broadcast reached the other, open connection only
C20_CloseWitness ==
    /\ program = "server"
    /\ ev.op = "close"
    /\ CastsMade(ev.calls) = 1
    /\ \E d \in Conns \ {ev.conn} : Len(ev.cast[d]) = 1

\* the Channel objects constructed under name n
ChannelsNamed(n) == {i \in 1..Len(made) : made[i].name = n}

\* C17: after any createChannel and start calls there is exactly one Channel
\* per name in use, and the Channel that accepts the connections of endpoint
\* n is the one the server-level on, off and broadcast for n act on.
C17_OneChannelPerName ==
    program = "wsi" =>
        \A n \in EndpointNames :
            ChannelsNamed(n) # {} =>
                /\ Cardinality(ChannelsNamed(n)) = 1
                /\ Accepting(made, n) = channels[n]

\* the divergence seen from outside: a connection is open on endpoint n, and
\* server.broadcast(data, n) with a topic reaches no connection
C17_BroadcastLost ==
    ~ /\ program = "wsi"
      /\ ev.op = "serverBroadcast"
      /\ ev.ret = "this"
      /\ Truthy(Prop(ev.msg, "topic"))
      /\ made[Accepting(made, DefaultChannel(ev.name))].conns > 0
      /\ ev.reached = 0

\* C23: the server-level on, off and broadcast act on the Channel stored under
\* the name they are given ('/' when none is given) and create none; when no
\* Channel is stored under that name they throw, and the channel map and
\* every Channel, its listener registry included, are as before.
C23_NoImplicitChannel ==
    [][program = "wsi" /\ ev'.op \in {"serverOn", "serverOff", "serverBroadcast"} =>
         LET i == channels[DefaultChannel(ev'.name)]
         IN  /\ channels' = channels
             /\ Len(made') = Len(made)
             /\ ev'.inst = i
             /\ \A j \in 1..Len(made) : j # i => made'[j] = made[j]
             /\ i = NoChannel => ev'.ret = "throw" /\ made' = made
             /\ i # NoChannel /\ ev'.topic \notin ProtoKeys => ev'.ret = "this"]_vars

\* server.on('connect', f) was called without a channel name before start():
\* the channel '/chat' exists, the root channel does not
C23_Witness ==
    /\ program = "wsi"
    /\ ev.op = "serverOn"
    /\ ev.name = ""
    /\ ~started
    /\ channels["/"] = NoChannel
    /\ channels["/chat"] # NoChannel
    /\ ev.ret = "throw"

\* C22: a frame a peer sends never runs a listener registered under 'connect'
\* or 'disconnect': these listeners run only for the messages the Channel
\* makes itself when it accepts a connection and when one closes.
C22_ReservedTopics ==
    program = "wsi" /\ ev.op = "peerMessage" /\ CanRead(ev.msg)
        /\ Prop(ev.msg, "topic").type = "string"
        /\ TopicOf(ev) \in {"connect", "disconnect"}
    => \A i \in 1..Len(ev.calls) : ev.calls[i][1] # "topic"

\* this.topics after the bodies of the listeners ls ran one after the other
RECURSIVE Bodies(_, _)
Bodies(ls, tps) == IF ls = <<>> THEN tps ELSE Bodies(Tail(ls), Body(Head(ls), tps))

\* C21: a dispatch calls, in the '#' phase, the listeners '#' had when the
\* message arrived and, in the topic phase, the listeners the topic had when
\* that phase began, that is after the on and off calls made by the '#'
\* listeners: a listener added during a phase is not called in it, a listener
\* removed during a phase is still called in it, and the registry the next
\* message meets holds every change made.
C21_DispatchSnapshot ==
    [][program = "nested" /\ ev'.op = "nestedMessage" =>
         LET t == TopicOf(ev')
             mid == Bodies(topics["#"].listeners, topics)
         IN  /\ PhaseCalls(ev'.calls, "all") = Tag("all", topics["#"].listeners)
             /\ PhaseCalls(ev'.calls, "topic") = Tag("topic", mid[t].listeners)
             /\ topics' = Bodies(mid[t].listeners, mid)]_vars

\* a message on 'a' called "remover" and then "late", which "remover" had
\* taken out of the listeners of 'a' by then: the next message does not meet it
C21_Witness ==
    /\ program = "nested"
    /\ ev.op = "nestedMessage"
    /\ TopicOf(ev) = "a"
    /\ \E i, j \in 1..Len(ev.calls) :
           i < j /\ ev.calls[i] = <<"topic", "remover">> /\ ev.calls[j] = <<"topic", "late">>
    /\ ~Includes(topics["a"].listeners, "late")

\* a message on 'a' called "adder" in the topic phase and not "late", which
\* "adder" registered under 'a': the next message meets it
C21_AddedWitness ==
    /\ program = "nested"
    /\ ev.op = "nestedMessage"
    /\ TopicOf(ev) = "a"
    /\ Count(ev.calls, <<"topic", "adder">>) = 1
    /\ Count(ev.calls, <<"topic", "late">>) = 0
    /\ Includes(topics["a"].listeners, "late")

\* "adder", a listener of '#', registered "late" under 'a', and the topic
\* phase of the same message on 'a' called it
C21_AllPhaseWitness ==
    /\ program = "nested"
    /\ ev.op = "nestedMessage"
    /\ TopicOf(ev) = "a"
    /\ ev.calls = <<<<"all", "adder">>, <<"topic", "late">>>>

=============================================================================
